---- MODULE Spec2Model ----
(***************************************************************************)
(* Model of ahc/ahc033/src/main.rs: the crane yard State with its          *)
(* transition step, the grid search bfs, and the Solver's turn loop.       *)
(*                                                                         *)
(* Conventions.  Rust Vec indices are kept for the board, the cranes and   *)
(* the done lists (functions over 0..n-1); the queues, the done lists'     *)
(* contents and the recorded actions are sequences (Vec v[k] is seq[k+1]). *)
(* The usize value !0 (usize::MAX) is written NOPOS: the program only      *)
(* compares it and range-tests it, and x + !0 wraps to x - 1, which for    *)
(* x = 0 is again !0, outside every range 0..n.                            *)
(***************************************************************************)
EXTENDS Integers, Sequences, FiniteSets, TLC

VARIABLES input, state, mv, res, pc, turn, actions, rstate, rturn, query, qres

vars == <<input, state, mv, res, pc, turn, actions, rstate, rturn, query, qres>>

\* !0 as usize, the "bombed" / "no task" / off-grid sentinel.
NOPOS == 0 - 1

\* -1 as i32, the "no container" value of board cells and Crane.container.
EMPTY == 0 - 1

\* enum Move.
Stay == [tag |-> "Stay", dir |-> 0]
Pick == [tag |-> "Pick", dir |-> 0]
Release == [tag |-> "Release", dir |-> 0]
Bomb == [tag |-> "Bomb", dir |-> 0]
MoveDir(d) == [tag |-> "Move", dir |-> d]
Move == {Stay, Pick, Release, Bomb} \cup {MoveDir(d) : d \in 0..3}

\* usize::wrapping_add(x, d) for d in {!0, 0, 1} on coordinates.
wrapping_add(x, d) == IF x + d < 0 THEN NOPOS ELSE x + d

\* The direction tables dx, dy (the 5th entry is bfs's "stay").
dx == <<NOPOS, 0, 1, 0, 0>>
dy == <<0, NOPOS, 0, 1, 0>>

InRange(x, n) == x >= 0 /\ x < n

\* Move::next: the cell a crane at xy is in after the move, NONE off the grid.
NONE == <<"None">>
Some(xy) == <<"Some", xy>>
next(m, xy, n) ==
    CASE m.tag \in {"Stay", "Pick", "Release"} -> Some(xy)
      [] m.tag = "Bomb" -> Some(<<NOPOS, NOPOS>>)
      [] m.tag = "Move" ->
            LET nx == wrapping_add(xy[1], dx[m.dir + 1])
                ny == wrapping_add(xy[2], dy[m.dir + 1])
            IN IF ~InRange(nx, n) \/ ~InRange(ny, n) THEN NONE ELSE Some(<<nx, ny>>)

\* Crane::bombed, Crane::get_pos.
bombed(c) == c.x = NOPOS
get_pos(c) == <<c.x, c.y>>

\* State::len.
len(s) == Cardinality(DOMAIN s.cranes)

\* State::new without rev(): the queue keeps the order of the input row.
Reverse_keep(q) == q

\* Iterator::rev.
Reverse(q) == [k \in 1..Len(q) |-> q[Len(q) + 1 - k]]
Last(q) == q[Len(q)]
Front(q) == SubSeq(q, 1, Len(q) - 1)

\* Itertools::collect_vec: the elements of a sequence, each computed once.
collect_vec(q) == <<>> \o q

\* The test of carry_in without its first half: any crane on the cell counts.
clear_of_any(c, i) == get_pos(c) # <<i, 0>>

\* The test of carry_in on one crane: c is no carrying crane on (i, 0).
clear_of(c, i) == c.container = EMPTY \/ get_pos(c) # <<i, 0>>

\* carry_in filling no cell.
carry_in_none(s) == s

\* State::carry_in: every row whose intake cell is empty and has no carrying
\* crane on it pops the tail of its queue into the cell (rows are independent:
\* the loop body for row i reads and writes only row i and the cranes).
carry_in(s) ==
    LET n == len(s)
        open(i) == /\ s.board[i][0] = EMPTY
                   /\ \A k \in 0..n-1 : clear_of(s.cranes[k], i)
        pops(i) == open(i) /\ Len(s.queue[i]) > 0
    IN [s EXCEPT
          !.board = [i \in 0..n-1 |->
                       IF pops(i) THEN [s.board[i] EXCEPT ![0] = Last(s.queue[i])]
                       ELSE s.board[i]],
          !.queue = [i \in 0..n-1 |->
                       IF pops(i) THEN Front(s.queue[i]) ELSE s.queue[i]]]

\* carry_out without line 161: the delivered container is left on the board.
carry_out_keep(s) ==
    LET n == len(s)
    IN [s EXCEPT
          !.done = [i \in 0..n-1 |->
                      IF s.board[i][n-1] # EMPTY
                      THEN Append(s.done[i], s.board[i][n-1]) ELSE s.done[i]]]

\* State::carry_out: a container on the last column goes to its row's done list.
carry_out(s) ==
    LET n == len(s)
    IN [s EXCEPT
          !.done = [i \in 0..n-1 |->
                      IF s.board[i][n-1] # EMPTY
                      THEN Append(s.done[i], s.board[i][n-1]) ELSE s.done[i]],
          !.board = [i \in 0..n-1 |-> [s.board[i] EXCEPT ![n-1] = EMPTY]]]

\* State::new.
new(inp) ==
    LET n == inp.n
    IN carry_in([queue |-> [i \in 0..n-1 |-> Reverse(inp.a[i + 1])],
                 done |-> [i \in 0..n-1 |-> <<>>],
                 board |-> [i \in 0..n-1 |-> [j \in 0..n-1 |-> EMPTY]],
                 cranes |-> [i \in 0..n-1 |->
                               [large |-> (i = 0), x |-> i, y |-> 0,
                                container |-> EMPTY]]])

Ok(s) == [ok |-> TRUE, state |-> s, err |-> ""]
Err(s, e) == [ok |-> FALSE, state |-> s, err |-> e]

\* The test of line 214 without its !large conjunct.
over_container_any(self, c, nx, ny) ==
    c.container # EMPTY /\ self.board[nx][ny] # EMPTY

\* Line 214 never stopping a crane.
over_container_never(self, c, nx, ny) == FALSE

\* The test that stops a crane from moving onto cell (nx, ny) of self.
over_container(self, c, nx, ny) ==
    ~c.large /\ c.container # EMPTY /\ self.board[nx][ny] # EMPTY

\* Move::Bomb without its second test.
bomb_carrying_never(c) == FALSE

\* Move::Bomb without its first test.
bomb_again_allowed(c) == FALSE

\* The first test of Move::Bomb: a bombed crane cannot be bombed again.
bomb_again(c) == bombed(c)

\* The second test of Move::Bomb: a crane that carries cannot be bombed.
bomb_carrying(c) == c.container # EMPTY

\* One iteration of step's first loop: crane i's move, checked against self
\* (the state before the call) and applied to nxt (the clone being built).
apply_move(self, nxt, m, i) ==
    LET c == self.cranes[i]
        x == c.x
        y == c.y
    IN CASE m.tag = "Stay" -> Ok(nxt)
         [] m.tag = "Pick" ->
              IF bombed(c) THEN Err(nxt, "bombed")
              ELSE IF c.container # EMPTY THEN Err(nxt, "holds")
              ELSE IF self.board[x][y] = EMPTY THEN Err(nxt, "nothing")
              ELSE Ok([nxt EXCEPT !.cranes[i].container = self.board[x][y],
                                  !.board[x][y] = EMPTY])
         [] m.tag = "Release" ->
              IF bombed(c) THEN Err(nxt, "bombed")
              ELSE IF c.container = EMPTY THEN Err(nxt, "empty")
              ELSE IF self.board[x][y] # EMPTY THEN Err(nxt, "occupied")
              ELSE Ok([nxt EXCEPT !.cranes[i].container = EMPTY,
                                  !.board[x][y] = c.container])
         [] m.tag = "Move" ->
              IF bombed(c) THEN Err(nxt, "bombed")
              ELSE LET nxy == next(m, <<x, y>>, len(self))
                   IN IF nxy = NONE THEN Err(nxt, "out")
                      ELSE IF over_container(self, c, nxy[2][1], nxy[2][2])
                           THEN Err(nxt, "over")
                      ELSE Ok([nxt EXCEPT !.cranes[i].x = nxy[2][1],
                                          !.cranes[i].y = nxy[2][2]])
         [] m.tag = "Bomb" ->
              IF bomb_again(c) THEN Err(nxt, "bombed")
              ELSE IF bomb_carrying(c) THEN Err(nxt, "carrying")
              ELSE Ok([nxt EXCEPT !.cranes[i].x = NOPOS, !.cranes[i].y = NOPOS])

\* step's first loop, from crane i on, stopping at the first error.
RECURSIVE move_loop(_, _, _, _)
move_loop(self, nxt, m, i) ==
    IF i = len(self) THEN Ok(nxt)
    ELSE LET r == apply_move(self, nxt, m[i], i)
         IN IF r.ok THEN move_loop(self, r.state, m, i + 1) ELSE r

\* The collision test without its exchange half (qi == pj && qj == pi).
collided_same_cell(self, nxt) ==
    \E i \in 0..len(self)-1 : \E j \in 0..i-1 :
        /\ ~bombed(nxt.cranes[i])
        /\ ~bombed(nxt.cranes[j])
        /\ get_pos(nxt.cranes[i]) = get_pos(nxt.cranes[j])

\* step's second loop: some pair of cranes not bombed in nxt ends on one cell
\* or exchanges cells.
collided(self, nxt) ==
    \E i \in 0..len(self)-1 : \E j \in 0..i-1 :
        /\ ~bombed(nxt.cranes[i])
        /\ ~bombed(nxt.cranes[j])
        /\ LET pi == get_pos(self.cranes[i])
               pj == get_pos(self.cranes[j])
               qi == get_pos(nxt.cranes[i])
               qj == get_pos(nxt.cranes[j])
           IN qi = qj \/ (qi = pj /\ qj = pi)

\* step working on *self in place of a clone: an error leaves the moves
\* already applied.
rejected_partial(self, nxt) == nxt

\* What step leaves in *self when it returns an error.
rejected(self, nxt) == self

\* State::step: the result, and the state afterwards.
step(self, m) ==
    LET r == move_loop(self, self, m, 0)
    IN IF ~r.ok THEN Err(rejected(self, r.state), r.err)
       ELSE IF collided(self, r.state) THEN Err(rejected(self, r.state), "collided")
       ELSE Ok(carry_in(carry_out(r.state)))

(***************************************************************************)
(* State::bfs.                                                             *)
(***************************************************************************)

\* 1usize << 60, the initial entry of dist: above every distance pushed.
UNSEEN == 2^30

\* Vec::contains.
Contains(v, e) == \E k \in DOMAIN v : v[k] = e

out_of_range(x, y, n) == ~InRange(x, n) \/ ~InRange(y, n)

\* The occupancy test without the move_over flag: no cell blocks.
bfs_blocked_never(s, x, y, move_over) == FALSE

\* The occupancy test of lines 380 and 397.
bfs_blocked(s, x, y, move_over) == ~move_over /\ s.board[x][y] # EMPTY

\* An entry whose distance leaves out the first step.
bfs_entry_short(dir, d) == <<IF dir < 4 THEN MoveDir(dir) ELSE Stay, d - 1>>

\* The entry pushed to res when the target is popped at distance d.
bfs_entry(dir, d) == <<IF dir < 4 THEN MoveDir(dir) ELSE Stay, d>>

\* The inner loop over dir1 for a popped element (x, y, d): the cells pushed,
\* in the order of dir1.  The test dist[nx][ny] < d reads the same whether or
\* not elements of distance d popped earlier have set entries of dist to
\* d + 1, so dist is the one the first element of distance d was popped with.
bfs_expand(s, move_over, x, y, d, dist) ==
    SelectSeq([dir1 \in 1..4 |-> <<wrapping_add(x, dx[dir1]), wrapping_add(y, dy[dir1])>>],
              LAMBDA c : ~(\/ out_of_range(c[1], c[2], len(s))
                           \/ bfs_blocked(s, c[1], c[2], move_over)
                           \/ dist[c[1] + 1][c[2] + 1] < d))

\* The cells pushed while the elements lo..hi of level are popped, in order.
RECURSIVE bfs_pushed(_, _, _, _, _, _, _)
bfs_pushed(s, move_over, level, d, dist, lo, hi) ==
    IF lo > hi THEN <<>>
    ELSE IF lo = hi THEN bfs_expand(s, move_over, level[lo][1], level[lo][2], d, dist)
    ELSE bfs_pushed(s, move_over, level, d, dist, lo, (lo + hi) \div 2)
         \o bfs_pushed(s, move_over, level, d, dist, ((lo + hi) \div 2) + 1, hi)

\* The while loop, one distance at a time: level is the queue when its front
\* is the first element of distance d (the queue then holds the elements of
\* distance d only).  The loop breaks when the target is popped; else the
\* queue becomes the cells these elements push, all of distance d + 1.
RECURSIVE bfs_loop(_, _, _, _, _, _, _)
bfs_loop(s, to, move_over, dir, level, d, dist) ==
    IF level = <<>> THEN <<>>
    ELSE IF Contains(level, to) THEN <<bfs_entry(dir, d)>>
    ELSE LET pushed == bfs_pushed(s, move_over, level, d, dist, 1, Len(level))
             cells == {pushed[k] : k \in 1..Len(pushed)}
         IN bfs_loop(s, to, move_over, dir, pushed, d + 1,
                     collect_vec([i \in 1..len(s) |-> collect_vec([j \in 1..len(s) |->
                        IF <<i - 1, j - 1>> \in cells THEN d + 1 ELSE dist[i][j]])]))

\* One iteration of the loop over the 5 first steps: at most one entry.
bfs_dir(s, from, to, move_over, dir) ==
    LET n == len(s)
        sx1 == wrapping_add(from[1], dx[dir + 1])
        sy1 == wrapping_add(from[2], dy[dir + 1])
    IN IF out_of_range(sx1, sy1, n) THEN <<>>
       ELSE IF bfs_blocked(s, sx1, sy1, move_over) THEN <<>>
       ELSE bfs_loop(s, to, move_over, dir, << <<sx1, sy1>> >>, 1,
                     collect_vec([i \in 1..n |-> collect_vec([j \in 1..n |->
                        IF i - 1 = sx1 /\ j - 1 = sy1 THEN 1 ELSE UNSEEN])]))

\* State::bfs: the entries of the 5 first steps, in the order of dir.
bfs(s, from, to, move_over) ==
    bfs_dir(s, from, to, move_over, 0) \o bfs_dir(s, from, to, move_over, 1)
    \o bfs_dir(s, from, to, move_over, 2) \o bfs_dir(s, from, to, move_over, 3)
    \o bfs_dir(s, from, to, move_over, 4)

\* State::reachable: bfs's result is not empty, that is, some first step
\* yields an entry.
reachable(s, from, to, move_over) ==
    \E dir \in 0..4 : bfs_dir(s, from, to, move_over, dir) # <<>>

(***************************************************************************)
(* The planner: targets, destinations, and the cranes sent to them.        *)
(***************************************************************************)

\* usize::MAX as a sort key: above every count of kicks.  A usize difference
\* a - b with a < b wraps to usize::MAX + 1 - (b - a).
USIZE_MAX == 2^30
usize_sub(a, b) == IF a >= b THEN a - b ELSE USIZE_MAX + 1 - (b - a)

Max(a, b) == IF a >= b THEN a ELSE b

\* manhattan_distance.
manhattan_distance(p, q) ==
    (Max(p[1], q[1]) - (IF p[1] <= q[1] THEN p[1] ELSE q[1]))
    + (Max(p[2], q[2]) - (IF p[2] <= q[2] THEN p[2] ELSE q[2]))

\* Ties on the first component go to the greatest second component.
MinPair_last(S) ==
    CHOOSE p \in S : \A q \in S : p[1] < q[1] \/ (p[1] = q[1] /\ p[2] >= q[2])

\* The least pair of a set in the order of tuples (first component first).
MinPair(S) ==
    CHOOSE p \in S : \A q \in S : p[1] < q[1] \/ (p[1] = q[1] /\ p[2] <= q[2])

\* The sort with the greatest key first.
RECURSIVE stable_sort_desc(_)
stable_sort_desc(ps) ==
    IF ps = <<>> THEN <<>>
    ELSE LET sorted == stable_sort_desc(Front(ps))
             p == Last(ps)
             pos == Cardinality({k \in 1..Len(sorted) : sorted[k][1] >= p[1]})
         IN SubSeq(sorted, 1, pos) \o <<p>> \o SubSeq(sorted, pos + 1, Len(sorted))

\* A stable sort of a sequence of <<key, element>> pairs by key: the pair p,
\* later in the input than all of sorted, goes behind the keys not above its.
RECURSIVE stable_sort(_)
stable_sort(ps) ==
    IF ps = <<>> THEN <<>>
    ELSE LET sorted == stable_sort(Front(ps))
             p == Last(ps)
             pos == Cardinality({k \in 1..Len(sorted) : sorted[k][1] <= p[1]})
         IN SubSeq(sorted, 1, pos) \o <<p>> \o SubSeq(sorted, pos + 1, Len(sorted))

\* State::next_containers_to_caryy_out, from row i on.
\* The rows counted from their last id: row r's next is n*r + n - 1 - n_done[r].
next_containers_last(s, i) ==
    LET n == len(s)
        rows == SelectSeq([k \in 1..n-i |-> i + k - 1], LAMBDA r : Len(s.done[r]) < n)
    IN collect_vec([k \in 1..Len(rows) |-> n * rows[k] + n - 1 - Len(s.done[rows[k]])])

RECURSIVE next_containers_from(_, _)
next_containers_from(s, i) ==
    IF i = len(s) THEN <<>>
    ELSE (IF Len(s.done[i]) < len(s) THEN <<len(s) * i + Len(s.done[i])>> ELSE <<>>)
         \o next_containers_from(s, i + 1)

next_containers_to_caryy_out(s) == next_containers_from(s, 0)

\* enum ContainerState.
CsDone == [tag |-> "Done", a |-> 0, b |-> 0]
CsCarrying(i) == [tag |-> "Carrying", a |-> i, b |-> 0]
CsQueue(i, depth) == [tag |-> "Queue", a |-> i, b |-> depth]
CsBoard(x, y) == [tag |-> "Board", a |-> x, b |-> y]

\* State::search_container: the first hit of the three scans, in scan order.
search_container(s, container) ==
    LET n == len(s)
        onb == {xy \in (0..n-1) \X (0..n-1) : s.board[xy[1]][xy[2]] = container}
        inq == {id \in (0..n-1) \X (0..n-1) :
                  /\ id[2] < Len(s.queue[id[1]])
                  /\ s.queue[id[1]][Len(s.queue[id[1]]) - id[2]] = container}
        car == {i \in 0..n-1 : s.cranes[i].container = container}
    IN IF onb # {} THEN CsBoard(MinPair(onb)[1], MinPair(onb)[2])
       ELSE IF inq # {} THEN CsQueue(MinPair(inq)[1], MinPair(inq)[2])
       ELSE IF car # {} THEN CsCarrying(CHOOSE i \in car : \A j \in car : i <= j)
       ELSE CsDone

\* calc_n_kick.
\* calc_n_kick blind to the kicks already committed.
calc_n_kick_fresh(cs, n_kicked) ==
    CASE cs.tag \in {"Board", "Carrying"} -> 0
      [] cs.tag = "Queue" -> cs.b + 1
      [] cs.tag = "Done" -> USIZE_MAX

\* The closure calc_n_kick: the key a candidate is sorted by.
calc_n_kick(cs, n_kicked) ==
    CASE cs.tag \in {"Board", "Carrying"} -> 0
      [] cs.tag = "Queue" -> Max(0, usize_sub(cs.b + 1, n_kicked[cs.a]))
      [] cs.tag = "Done" -> USIZE_MAX

\* The while loop of determine_target_containers.
RECURSIVE target_loop(_, _, _, _, _)
target_loop(n, container_states, cand, targets, n_kicked) ==
    IF ~(Len(targets) < n /\ cand # <<>>) THEN targets
    ELSE LET sorted == stable_sort(collect_vec([k \in 1..Len(cand) |->
                          <<calc_n_kick(container_states[cand[k] + 1], n_kicked), cand[k]>>]))
             cont == sorted[1][2]
             cs == container_states[cont + 1]
             kicked == IF cs.tag = "Queue"
                       THEN [n_kicked EXCEPT ![cs.a] = Max(@, cs.b + 1)]
                       ELSE n_kicked
         IN target_loop(n, container_states,
                        collect_vec([k \in 1..Len(sorted) - 1 |-> sorted[k + 1][2]]),
                        Append(targets, cont), kicked)

\* State::determine_target_containers.
determine_target_containers(s) ==
    LET n == len(s)
        container_states == collect_vec([k \in 1..n*n |-> search_container(s, k - 1)])
    IN target_loop(n, container_states, next_containers_to_caryy_out(s), <<>>,
                   [i \in 0..n-1 |-> 0])

\* The loop of make_destinations from target k on.
RECURSIVE destinations_from(_, _, _, _, _)
destinations_from(s, targets, k, dests, n_kicked) ==
    IF k > Len(targets) THEN dests
    ELSE LET cs == search_container(s, targets[k])
         IN CASE cs.tag \in {"Done", "Carrying"} ->
                   destinations_from(s, targets, k + 1, dests, n_kicked)
              [] cs.tag = "Board" ->
                   destinations_from(s, targets, k + 1, Append(dests, <<cs.a, cs.b>>),
                                     n_kicked)
              [] cs.tag = "Queue" ->
                   LET more == Max(0, cs.b + 1 - n_kicked[cs.a])
                   IN destinations_from(s, targets, k + 1,
                         dests \o [j \in 1..more |-> <<cs.a, 0>>],
                         [n_kicked EXCEPT ![cs.a] = @ + more])

\* State::make_destinations.
make_destinations(s) ==
    destinations_from(s, determine_target_containers(s), 1, <<>>,
                      [i \in 0..len(s)-1 |-> 0])

\* State::search_free_cells, from row i on: the free cells of the columns
\* n-2 down to 2 of each row.
RECURSIVE free_cells_from(_, _)
free_cells_from(s, i) ==
    IF i = len(s) THEN <<>>
    ELSE LET n == len(s)
             row == [k \in 1..Max(0, n - 3) |-> <<i, n - 1 - k>>]
         IN SelectSeq(row, LAMBDA c : s.board[c[1]][c[2]] = EMPTY)
            \o free_cells_from(s, i + 1)

search_free_cells(s) == free_cells_from(s, 0)

\* State::search_additional_free_cells.
search_additional_free_cells(s) ==
    SelectSeq([k \in 1..len(s) |-> <<k - 1, 0>>],
              LAMBDA c : s.queue[c[1]] = <<>> /\ s.board[c[1]][0] = EMPTY)

\* The terminal cell of container cont taken to the row of another residue.
terminal_cell_mod(cont, n) == <<cont % n, n - 1>>

\* The cell a container that can be carried out is taken to: the terminal
\* cell of row cont / n.
terminal_cell(cont, n) == <<cont \div n, n - 1>>

\* The closure dest_of_container: where container cont, now at start, is to be
\* put down by a crane of the given size, dests being the cells given out.
dest_of_container(s, cand, cont, start, is_large, dests) ==
    LET n == len(s)
        usable(dest) == reachable(s, start, dest, is_large) /\ ~Contains(dests, dest)
        lst == search_free_cells(s)
        more == SelectSeq(search_additional_free_cells(s), usable)
        near == stable_sort(collect_vec([k \in 1..Len(more) |->
                               <<manhattan_distance(start, more[k]), more[k]>>]))
    IN IF Contains(cand, cont) THEN terminal_cell(cont, n)
       ELSE IF \E k \in 1..Len(lst) : usable(lst[k])
            THEN lst[CHOOSE k \in 1..Len(lst) :
                       usable(lst[k]) /\ \A j \in 1..k-1 : ~usable(lst[j])]
       ELSE IF more # <<>> THEN near[1][2]
       ELSE <<NOPOS, NOPOS>>

\* The loop over busy_list: the destination of every crane that carries.
RECURSIVE busy_loop(_, _, _, _)
busy_loop(s, cand, busy_list, dests) ==
    IF busy_list = <<>> THEN dests
    ELSE LET n == len(s)
             i == Head(busy_list)
             c == s.cranes[i]
             dest == dest_of_container(s, cand, c.container, get_pos(c), c.large, dests)
             mine == IF reachable(s, get_pos(c), dest, c.large) THEN dest
                     ELSE IF c.y # n - 1 THEN get_pos(c)
                     ELSE dest
         IN busy_loop(s, cand, Tail(busy_list), [dests EXCEPT ![i] = mine])

\* The loop over new_dest_set: each task goes to the nearest crane that is
\* not busy and can take it on; bd is the pair <<busy_list, dests>>.
RECURSIVE task_loop(_, _, _, _, _)
task_loop(s, cand, n_crane, tasks, bd) ==
    IF tasks = <<>> THEN bd[2]
    ELSE LET dest1 == Head(tasks)
             c == s.board[dest1[1]][dest1[2]]
             can(large) ==
                 reachable(s, dest1, dest_of_container(s, cand, c, dest1, large, bd[2]),
                           large)
             can_large == can(TRUE)
             can_small == can(FALSE)
             feasible(i) == IF s.cranes[i].large THEN can_large ELSE can_small
             cands == {di \in (0..2 * len(s)) \X (0..n_crane-1) :
                         /\ ~Contains(bd[1], di[2])
                         /\ di[1] = manhattan_distance(get_pos(s.cranes[di[2]]), dest1)
                         /\ feasible(di[2])}
         IN IF cands = {} THEN task_loop(s, cand, n_crane, Tail(tasks), bd)
            ELSE task_loop(s, cand, n_crane, Tail(tasks),
                           <<Append(bd[1], MinPair(cands)[2]),
                             [bd[2] EXCEPT ![MinPair(cands)[2]] = dest1]>>)

\* Solver::match_crane_with_target: crane id => destination.
match_crane_with_target(s, n_crane) ==
    LET cand == next_containers_to_caryy_out(s)
        new_dest_set == make_destinations(s)
        busy_list == SelectSeq([k \in 1..n_crane |-> k - 1],
                               LAMBDA i : s.cranes[i].container # EMPTY)
        dests == busy_loop(s, cand, busy_list,
                           [i \in 0..n_crane-1 |-> <<NOPOS, NOPOS>>])
    IN task_loop(s, cand, n_crane, new_dest_set, <<busy_list, dests>>)

(***************************************************************************)
(* The synthesizer and the driver.                                         *)
(***************************************************************************)

\* n_crane and max_turn of Solver::solve.
n_crane == 5
max_turn == 1000

\* extend_move.
extend_move(moves, n) ==
    [i \in 0..Max(n, Len(moves)) - 1 |-> IF i < Len(moves) THEN moves[i + 1] ELSE Stay]

\* Solver::validate_turn_action on the moves cand (one per crane, from crane 0).
validate_turn_action(s, cand) ==
    LET n == len(s)
        cur(i) == get_pos(s.cranes[i - 1])
        nxt(i) == next(cand[i], cur(i), n)[2]
    IN \A i \in 1..Len(cand) : \A j \in i + 1..Len(cand) :
          ~(nxt(i) = nxt(j) \/ (nxt(i) = cur(j) /\ nxt(j) = cur(i)))

\* The candidates of a crane without a task: Stay and the moves that stay on
\* the grid, all of weight 0.
idle_moves(s, i) ==
    <<<<Stay, 0>>>>
    \o SelectSeq([d \in 1..4 |-> <<MoveDir(d - 1), 0>>],
                 LAMBDA e : next(e[1], get_pos(s.cranes[i]), len(s)) # NONE)

\* The assertion of line 582 fails for crane i.
assert_fails(s, dests, i) ==
    /\ dests[i] # <<NOPOS, NOPOS>>
    /\ dests[i] = get_pos(s.cranes[i])
    /\ s.cranes[i].container = EMPTY
    /\ s.board[s.cranes[i].x][s.cranes[i].y] = EMPTY

\* The first loop of consider_next_move: the candidates of crane i.
possible_moves(s, dests, i) ==
    LET c == s.cranes[i]
    IN IF dests[i] = <<NOPOS, NOPOS>> THEN idle_moves(s, i)
       ELSE IF dests[i] = get_pos(c)
            THEN (IF c.container = EMPTY THEN <<<<Pick, 0>>>> ELSE <<<<Release, 0>>>>)
       ELSE bfs(s, get_pos(c), dests[i], c.large \/ c.container = EMPTY)

\* multi_cartesian_product of the candidate lists pm[k..]: every choice of one
\* candidate per list, the last list varying fastest.
RECURSIVE cartesian_product(_, _)
cartesian_product(pm, k) ==
    IF k > Len(pm) THEN << <<>> >>
    ELSE LET rest == cartesian_product(pm, k + 1)
             m == Len(rest)
         IN collect_vec([j \in 1..Len(pm[k]) * m |->
               <<pm[k][((j - 1) \div m) + 1]>> \o rest[((j - 1) % m) + 1]])

\* The sum of the distances left out: every combination weighs nothing.
weight_none(combo) == 0

\* dists.into_iter().sum().
RECURSIVE weight(_)
weight(combo) == IF combo = <<>> THEN 0 ELSE combo[1][2] + weight(Tail(combo))

moves_of(combo) == collect_vec([k \in 1..Len(combo) |-> combo[k][1]])

\* The test of line 597: every move of the combination is Stay.
no_progress(cand) == \A k \in 1..Len(cand) : cand[k] = Stay

\* Solver::consider_next_move: <<"Ok", moves>>, or <<"Panic", reason>>.  The
\* stable sort by weight followed by next() yields the first acceptable
\* combination, in the order of the product, among those of least weight.
consider_next_move(s, dests) ==
    LET nc == Cardinality(DOMAIN dests)
        pm == collect_vec([k \in 1..nc |-> possible_moves(s, dests, k - 1)])
        acceptable == SelectSeq(cartesian_product(pm, 1),
                        LAMBDA combo : /\ ~no_progress(moves_of(combo))
                                       /\ validate_turn_action(s, moves_of(combo)))
        ds == collect_vec([k \in 1..Len(acceptable) |-> weight(acceptable[k])])
        best == CHOOSE k \in 1..Len(acceptable) :
                    \A j \in 1..Len(acceptable) :
                        ds[k] < ds[j] \/ (ds[k] = ds[j] /\ k <= j)
    IN IF \E i \in 0..nc-1 : assert_fails(s, dests, i) THEN <<"Panic", "AssertFailed">>
       ELSE IF acceptable # <<>> THEN <<"Ok", moves_of(acceptable[best])>>
       ELSE <<"Panic", "NoCandidate">>

\* The transcript after a turn: the padded vector is pushed in front.
record_front(acts, ext_act) == <<ext_act>> \o acts

\* actions.push(ext_act).
record(acts, ext_act) == Append(acts, ext_act)

\* The loop test of solve: every done list is full.
all_done(s) == \A i \in 0..len(s)-1 : Len(s.done[i]) = len(s)

(***************************************************************************)
(* The transition engine driven by arbitrary move vectors.                 *)
(***************************************************************************)

\* Rows of container ids handed to Input (a permutation of 0..n*n-1): a yard
\* of side 1 and a yard of side 2.
Inputs ==
    { << <<0>> >>,
      << <<3, 0>>, <<2, 1>> >> }

mk_input(a) == [n |-> Len(a), a |-> a]

\* Values of the variables a specification does not use.
NoState == [queue |-> <<>>, done |-> <<>>, board |-> <<>>, cranes |-> <<>>]
NoQuery == [from |-> <<0, 0>>, to |-> <<0, 0>>, move_over |-> FALSE]

SolverIdle == turn = 0 /\ actions = <<>> /\ rstate = NoState /\ rturn = 0

BfsIdle == query = NoQuery /\ qres = <<>>

Init ==
    /\ \E a \in Inputs : input = mk_input(a)
    /\ state = new(input)
    /\ pc = "Idle"
    /\ mv = <<>>
    /\ res = "None"
    /\ SolverIdle
    /\ BfsIdle

\* A caller hands step one move per crane.
Call ==
    /\ pc = "Idle"
    /\ \E m \in [0..input.n-1 -> Move] : mv' = m
    /\ pc' = "Called"
    /\ res' = "None"
    /\ UNCHANGED <<input, state, turn, actions, rstate, rturn, query, qres>>

\* step runs on the vector it was handed and returns.
Return ==
    /\ pc = "Called"
    /\ LET r == step(state, mv)
       IN /\ state' = r.state
          /\ res' = (IF r.ok THEN "Ok" ELSE r.err)
    /\ pc' = "Idle"
    /\ mv' = <<>>
    /\ UNCHANGED <<input, turn, actions, rstate, rturn, query, qres>>

Next == Call \/ Return

Spec == Init /\ [][Next]_vars

(***************************************************************************)
(* Properties of the transition engine.                                    *)
(***************************************************************************)

N == input.n
Rows == 0..N-1
Ids == 0..N*N-1

\* The number of places that hold container c.
Occurrences(s, c) ==
    Cardinality({xy \in Rows \X Rows : s.board[xy[1]][xy[2]] = c})
    + Cardinality({ik \in Rows \X (1..N) :
                     ik[2] <= Len(s.queue[ik[1]]) /\ s.queue[ik[1]][ik[2]] = c})
    + Cardinality({k \in Rows : s.cranes[k].container = c})
    + Cardinality({ik \in Rows \X (1..N*N) :
                     ik[2] <= Len(s.done[ik[1]]) /\ s.done[ik[1]][ik[2]] = c})

RECURSIVE SumLen(_, _)
SumLen(f, i) == IF i < 0 THEN 0 ELSE Len(f[i]) + SumLen(f, i - 1)

\* Containers on the board, in the queues, carried, and delivered.
OnBoard(s) == Cardinality({xy \in Rows \X Rows : s.board[xy[1]][xy[2]] # EMPTY})
Queued(s) == SumLen(s.queue, N - 1)
Carried(s) == Cardinality({k \in Rows : s.cranes[k].container # EMPTY})
Delivered(s) == SumLen(s.done, N - 1)

\* C1: in the initial state and after every call of step, every container id
\* is in exactly one place among the board, the queues, the cranes' payloads
\* and the done lists, and these places hold N*N containers in total.
C1_Conservation ==
    /\ \A c \in Ids : Occurrences(state, c) = 1
    /\ OnBoard(state) + Queued(state) + Carried(state) + Delivered(state) = N * N

\* C1's case: an accepted step leaves containers in all four kinds of place.
C1_Witness ==
    /\ res = "Ok"
    /\ OnBoard(state) > 0 /\ Queued(state) > 0
    /\ Carried(state) > 0 /\ Delivered(state) > 0

Live(s) == {k \in Rows : ~bombed(s.cranes[k])}

NoSharedCell(s) ==
    \A i \in Live(s) : \A j \in Live(s) :
        i # j => get_pos(s.cranes[i]) # get_pos(s.cranes[j])

\* C2: no two non-bombed cranes are on one cell, initially and after every
\* step, and no step makes two non-bombed cranes exchange their cells.
C2_NoCollision ==
    /\ NoSharedCell(state)
    /\ [][/\ NoSharedCell(state')
          /\ \A i \in Live(state') : \A j \in Live(state') :
                i # j =>
                  ~(/\ get_pos(state'.cranes[i]) = get_pos(state.cranes[j])
                    /\ get_pos(state'.cranes[j]) = get_pos(state.cranes[i]))]_vars

\* C2's case: an accepted step after which the two cranes have changed rows and
\* stand next to each other.
C2_Witness ==
    /\ res = "Ok"
    /\ Live(state) = Rows
    /\ state.cranes[0].x = 1 /\ state.cranes[1].x = 0
    /\ state.cranes[0].y = state.cranes[1].y

\* C3: a call of step that returns an error leaves the State as it was.
C3_AllOrNothing ==
    [][(pc = "Called" /\ res' # "Ok") => state' = state]_vars

\* C3's case: a vector whose moves all pass the single-crane tests (and were
\* applied to the clone) is rejected for a collision.
C3_Witness == res = "collided"

Carrying(s, i) == s.cranes[i].container # EMPTY

\* The cell crane i's move would take it to (Move::next of its position).
Dest(s, m, i) == next(m[i], get_pos(s.cranes[i]), N)

\* Crane i's move breaks one of the single-crane conditions.
IllegalMove(s, m, i) ==
    LET c == s.cranes[i]
    IN CASE m[i].tag = "Stay" -> FALSE
         [] m[i].tag = "Pick" ->
              bombed(c) \/ Carrying(s, i) \/ s.board[c.x][c.y] = EMPTY
         [] m[i].tag = "Release" ->
              bombed(c) \/ ~Carrying(s, i) \/ s.board[c.x][c.y] # EMPTY
         [] m[i].tag = "Move" ->
              \/ bombed(c)
              \/ Dest(s, m, i) = NONE
              \/ /\ s.board[Dest(s, m, i)[2][1]][Dest(s, m, i)[2][2]] # EMPTY
                 /\ Carrying(s, i)
                 /\ ~c.large
         [] m[i].tag = "Bomb" -> bombed(c) \/ Carrying(s, i)

\* The cranes that are on the grid after the vector: not bombed before it and
\* not bombed by it.
Remaining(s, m) == {i \in Rows : ~bombed(s.cranes[i]) /\ m[i].tag # "Bomb"}

\* Two remaining cranes end on one cell or exchange cells.
IllegalPair(s, m) ==
    \E i \in Remaining(s, m) : \E j \in Remaining(s, m) :
        /\ i # j
        /\ \/ Dest(s, m, i) = Dest(s, m, j)
           \/ /\ Dest(s, m, i)[2] = get_pos(s.cranes[j])
              /\ Dest(s, m, j)[2] = get_pos(s.cranes[i])

Legal(s, m) == (\A i \in Rows : ~IllegalMove(s, m, i)) /\ ~IllegalPair(s, m)

\* C4: step accepts a vector exactly when no crane's move breaks a
\* single-crane condition and no two cranes left on the grid end on one cell
\* or exchange cells.
C4_AcceptsIffLegal ==
    [][pc = "Called" => (res' = "Ok" <=> Legal(state, mv))]_vars

\* C4's case: the large crane, carrying, has been let onto a cell that holds a
\* container.
C4_Witness ==
    /\ res = "Ok"
    /\ Carrying(state, 0)
    /\ ~bombed(state.cranes[0])
    /\ state.board[state.cranes[0].x][state.cranes[0].y] # EMPTY

\* C5: a vector with Bomb for a crane that carries a container is rejected,
\* and the crane and its container stay as they were.
C5_BombCarryingRejected ==
    [][(pc = "Called"
        /\ \E i \in Rows : mv[i] = Bomb /\ Carrying(state, i))
       => (res' # "Ok" /\ state' = state)]_vars

\* C5's case: step has refused a Bomb because the crane carries a container.
C5_Witness == res = "carrying"

(***************************************************************************)
(* bfs as a function of the board, the two cells and the flag.             *)
(***************************************************************************)

\* Sides of the yards bfs is asked on, and the most containers on a board.
BfsSizes == {2, 3}
MaxOcc == 4

\* A State of side n whose board holds containers exactly on the cells occ.
board_state(n, occ) ==
    [queue |-> [i \in 0..n-1 |-> <<>>],
     done |-> [i \in 0..n-1 |-> <<>>],
     board |-> [i \in 0..n-1 |-> [j \in 0..n-1 |->
                  IF <<i, j>> \in occ THEN n * i + j ELSE EMPTY]],
     cranes |-> [i \in 0..n-1 |->
                   [large |-> (i = 0), x |-> i, y |-> 0, container |-> EMPTY]]]

BfsInit ==
    /\ \E n \in BfsSizes :
         /\ input = [n |-> n, a |-> <<>>]
         /\ \E occ \in SUBSET ((0..n-1) \X (0..n-1)) :
              /\ Cardinality(occ) <= MaxOcc
              /\ state = board_state(n, occ)
         /\ \E f \in (0..n-1) \X (0..n-1) : \E t \in (0..n-1) \X (0..n-1) :
              \E mo \in BOOLEAN :
                 query = [from |-> f, to |-> t, move_over |-> mo]
    /\ qres = <<>>
    /\ pc = "Query"
    /\ mv = <<>> /\ res = "None"
    /\ SolverIdle

\* bfs answers the query.
Search ==
    /\ pc = "Query"
    /\ qres' = bfs(state, query.from, query.to, query.move_over)
    /\ pc' = "Answered"
    /\ UNCHANGED <<input, state, mv, res, turn, actions, rstate, rturn, query>>

BfsNext == Search

BfsSpec == BfsInit /\ [][BfsNext]_vars

Cells == Rows \X Rows

\* A crane under the flag mo may be on cell c of s.
Traversable(s, c, mo) == mo \/ s.board[c[1]][c[2]] = EMPTY

Adjacent(c, e) ==
    \/ (c[1] = e[1] /\ (c[2] = e[2] + 1 \/ e[2] = c[2] + 1))
    \/ (c[2] = e[2] /\ (c[1] = e[1] + 1 \/ e[1] = c[1] + 1))

\* The traversable cells next to a cell of the set seen.
Around(s, mo, seen) ==
    {c \in Cells : Traversable(s, c, mo) /\ \E e \in seen : Adjacent(c, e)}

\* With seen the cells within k steps of the start: the least number of steps
\* after which t is within reach, -1 when the set stops growing without t.
RECURSIVE StepsTo(_, _, _, _, _)
StepsTo(s, mo, t, seen, k) ==
    IF t \in seen THEN k
    ELSE IF Around(s, mo, seen) \subseteq seen THEN 0 - 1
    ELSE StepsTo(s, mo, t, seen \cup Around(s, mo, seen), k + 1)

\* The length of a shortest path from cell c to cell t through traversable
\* cells (c and t included), -1 when there is none.
PathLength(s, c, t, mo) ==
    IF ~Traversable(s, c, mo) THEN 0 - 1 ELSE StepsTo(s, mo, t, {c}, 0)

\* The cell of first step dir from the query's start (dir 4 stays).
FirstCell(dir) ==
    <<query.from[1] + dx[dir + 1], query.from[2] + dy[dir + 1]>>

\* First step dir leads to the target.
Leads(dir) ==
    /\ FirstCell(dir) \in Cells
    /\ PathLength(state, FirstCell(dir), query.to, query.move_over) >= 0

EntriesOf(dir) ==
    {k \in 1..Len(qres) : qres[k][1] = bfs_entry(dir, 0)[1]}

EmptyBoard == \A c \in Cells : state.board[c[1]][c[2]] = EMPTY

C9_BfsEmpty ==
    pc = "Answered" =>
      /\ (~query.move_over /\ state.board[query.to[1]][query.to[2]] # EMPTY)
            => qres = <<>>
      /\ qres = <<>> <=> ~\E dir \in 0..4 : Leads(dir)

\* C9's case: the target is next to the start, holds a container, and the
\* start and its other neighbours are free: bfs has answered with no entry.
C9_Witness ==
    /\ pc = "Answered"
    /\ ~query.move_over
    /\ Adjacent(query.from, query.to)
    /\ state.board[query.to[1]][query.to[2]] # EMPTY
    /\ OnBoard(state) = 1
    /\ qres = <<>>

(***************************************************************************)
(* The solver's run, and the replay of its transcript by execute.          *)
(***************************************************************************)

\* The inputs of the solver's runs (5 rows of 5 ids).
SolverInputs ==
    { << <<0, 1, 2, 3, 4>>, <<5, 6, 7, 8, 9>>, <<10, 11, 12, 13, 14>>,
         <<15, 16, 17, 18, 19>>, <<20, 21, 22, 23, 24>> >>,
      << <<12, 1, 7, 3, 9>>, <<15, 5, 4, 20, 0>>, <<10, 14, 17, 13, 18>>,
         <<2, 22, 6, 23, 19>>, <<24, 11, 21, 16, 8>> >>,
      << <<12, 21, 9, 22, 6>>, <<10, 16, 11, 18, 2>>, <<8, 5, 0, 17, 15>>,
         <<20, 24, 13, 1, 3>>, <<19, 7, 4, 14, 23>> >>,
      << <<22, 13, 11, 21, 2>>, <<20, 9, 24, 10, 1>>, <<15, 19, 17, 4, 0>>,
         <<14, 18, 5, 3, 6>>, <<8, 23, 7, 12, 16>> >>,
      << <<23, 4, 21, 19, 11>>, <<13, 9, 16, 18, 6>>, <<3, 14, 22, 1, 5>>,
         <<8, 10, 2, 20, 15>>, <<24, 7, 0, 12, 17>> >>,
      << <<1, 9, 14, 10, 2>>, <<8, 24, 18, 5, 3>>, <<13, 20, 4, 21, 17>>,
         <<0, 11, 15, 16, 23>>, <<22, 12, 7, 6, 19>> >> }

SolverInit ==
    /\ \E a \in SolverInputs : input = mk_input(a)
    /\ state = new(input)
    /\ pc = "Running"
    /\ turn = 0
    /\ actions = <<>>
    /\ mv = <<>> /\ res = "None"
    /\ rstate = NoState /\ rturn = 0
    /\ BfsIdle

\* state.step(&ext_act).unwrap() and actions.push(ext_act): an error of step
\* panics, a success is recorded.
step_unwrap(ext_act, r) ==
    IF ~r.ok
    THEN /\ pc' = "StepFailed"
         /\ mv' = ext_act
         /\ res' = r.err
         /\ UNCHANGED <<state, turn, actions>>
    ELSE /\ state' = r.state
         /\ mv' = ext_act
         /\ res' = "Ok"
         /\ actions' = record(actions, ext_act)
         /\ turn' = turn + 1
         /\ pc' = "Running"

\* The chosen vector is extended to the yard's width and stepped.
turn_step(ext_act) == step_unwrap(ext_act, step(state, ext_act))

\* The outcome of consider_next_move: a panic ends the run.
turn_act(act) ==
    IF act[1] = "Panic"
    THEN /\ pc' = act[2]
         /\ UNCHANGED <<state, mv, res, turn, actions>>
    ELSE turn_step(extend_move(act[2], input.n))

\* One iteration of the loop of solve: plan, synthesize, step, record.  A
\* panic (a failed assertion, no candidate, the unwrap of a step error) ends
\* the run.
Turn ==
    /\ pc = "Running"
    /\ ~all_done(state)
    /\ turn < max_turn
    /\ turn_act(consider_next_move(state, match_crane_with_target(state, n_crane)))
    /\ UNCHANGED <<input, rstate, rturn, query, qres>>

\* The last statement of solve: the per-turn vectors become one sequence of
\* moves per crane.
transpose(acts) ==
    collect_vec([i \in 1..Cardinality(DOMAIN acts[1]) |->
                   collect_vec([t \in 1..Len(acts) |-> acts[t][i - 1]])])

\* The vector of turn t read back out of a Solution.
turn_moves(sol, t) == [i \in 0..Len(sol)-1 |-> sol[i + 1][t]]

\* The loop of solve ends: actions is transposed into the Solution, which is
\* handed to a fresh State.
Exit ==
    /\ pc = "Running"
    /\ all_done(state) \/ turn >= max_turn
    /\ pc' = IF all_done(state) THEN "Done" ELSE "TurnLimitExceeded"
    /\ actions' = transpose(actions)
    /\ rstate' = new(input)
    /\ res' = "None"
    /\ UNCHANGED <<input, state, mv, turn, rturn, query, qres>>

\* State::execute on the turns of the Solution: one step per vector, stopping
\* at the first error.
Replay ==
    /\ pc \in {"Done", "TurnLimitExceeded"}
    /\ rturn < turn
    /\ res \in {"None", "Ok"}
    /\ LET r == step(rstate, turn_moves(actions, rturn + 1))
       IN /\ rstate' = r.state
          /\ res' = (IF r.ok THEN "Ok" ELSE r.err)
    /\ mv' = turn_moves(actions, rturn + 1)
    /\ rturn' = rturn + 1
    /\ UNCHANGED <<input, state, pc, turn, actions, query, qres>>

SolverNext == Turn \/ Exit \/ Replay

SolverSpec == SolverInit /\ [][SolverNext]_vars

\* The ids of row i in increasing order: N*i, ..., N*i + N - 1.
RowIds(i) == [k \in 1..N |-> N * i + k - 1]

\* C6, as stated: once the done list of row i is complete it is row i of the
\* input, in the input's order.
C6_InputOrder ==
    \A i \in Rows : Len(state.done[i]) = N => state.done[i] = input.a[i + 1]

\* C6, amended: in a run of the solver the done list of row i is at all times
\* a prefix of N*i, ..., N*i + N - 1, so once complete it is exactly that
\* sequence, whatever the order of the input's row i.
C6_IdOrder ==
    \A i \in Rows :
       state.done[i] = SubSeq(RowIds(i), 1, Len(state.done[i]))

\* C6's case: the solver has completed a row whose input order is not the
\* increasing order of its ids.
C6_Witness ==
    /\ pc = "Running"
    /\ \E i \in Rows : /\ Len(state.done[i]) = N
                       /\ state.done[i] = RowIds(i)
                       /\ state.done[i] # input.a[i + 1]

C10_StepNeverFails == pc # "StepFailed"

\* C11, as stated: the driver is the state machine Running -> (Done |
\* TurnLimitExceeded): a run is in the loop or has left it through one of the
\* two exits, with at most max_turn vectors recorded.
C11_StateMachine ==
    /\ pc \in {"Running", "Done", "TurnLimitExceeded"}
    /\ turn <= max_turn

\* Two cranes that are on the grid before the vector m end on one cell or
\* exchange cells.
LivePairCollides(s, m) ==
    \E i \in Live(s) : \E j \in Live(s) :
        /\ i # j
        /\ Dest(s, m, i) # NONE /\ Dest(s, m, j) # NONE
        /\ \/ Dest(s, m, i) = Dest(s, m, j)
           \/ /\ Dest(s, m, i)[2] = get_pos(s.cranes[j])
              /\ Dest(s, m, j)[2] = get_pos(s.cranes[i])

\* C12: a bombed crane is at the sentinel position without a payload; across
\* every call of step it stays so, any move of it other than Stay makes step
\* reject the vector with the State unchanged, and a rejection for a
\* collision is always between two cranes that are not bombed.
C12_BombedForever ==
    /\ \A i \in Rows : bombed(state.cranes[i]) =>
          /\ get_pos(state.cranes[i]) = <<NOPOS, NOPOS>>
          /\ state.cranes[i].container = EMPTY
    /\ [][/\ \A i \in Rows : bombed(state.cranes[i]) =>
               /\ state'.cranes[i] = state.cranes[i]
               /\ (pc = "Called" /\ mv[i] # Stay) =>
                     (res' # "Ok" /\ state' = state)
          /\ (pc = "Called" /\ res' = "collided") => LivePairCollides(state, mv)]_vars

\* C12's case: a crane is bombed and a later vector with a move for it has
\* been rejected.
C12_Witness ==
    /\ res = "bombed"
    /\ \E i \in Rows : bombed(state.cranes[i])
    /\ \E i \in Rows : ~bombed(state.cranes[i])

\* The number of containers of row i that have left its queue.
Taken(s, i) == N - Len(s.queue[i])

\* C13: the queue of row i always holds, in order, the elements of row i of
\* the input that have not been taken; State::new places the first element
\* on (i,0); across a call of step a queue is unchanged or loses exactly its
\* front element, which is the next element of the input row and is put on
\* (i,0) by that step.  So the k-th container carried in is the k-th of the
\* input row and nothing ever enters a queue.
C13_IntakeFifo ==
    /\ \A i \in Rows :
          /\ Taken(state, i) >= 1
          /\ \A k \in 1..Len(state.queue[i]) :
                state.queue[i][Len(state.queue[i]) + 1 - k]
                   = input.a[i + 1][Taken(state, i) + k]
    /\ (pc = "Idle" /\ res = "None") =>
          \A i \in Rows : Taken(state, i) = 1 /\ state.board[i][0] = input.a[i + 1][1]
    /\ [][\A i \in Rows :
            \/ state'.queue[i] = state.queue[i]
            \/ /\ pc = "Called" /\ res' = "Ok"
               /\ state.queue[i] # <<>>
               /\ state'.queue[i] = Front(state.queue[i])
               /\ state'.board[i][0] = input.a[i + 1][Taken(state, i) + 1]]_vars

\* C13's case: an accepted step has carried in the second container of a row.
C13_Witness ==
    /\ res = "Ok"
    /\ N = 2
    /\ \E i \in Rows : /\ Taken(state, i) = 2
                       /\ state.board[i][0] = input.a[i + 1][2]

\* done list p is a prefix of done list q.
IsPrefix(p, q) == Len(p) <= Len(q) /\ SubSeq(q, 1, Len(p)) = p

\* C14, as stated: in the initial state and after every call of step no
\* container is on the terminal column; a step that releases a container onto
\* (i,N-1) appends it to done[i]; a done list only grows at its end.
C14_TerminalEmpty ==
    /\ \A i \in Rows : state.board[i][N - 1] = EMPTY
    /\ [][\A i \in Rows :
            /\ IsPrefix(state.done[i], state'.done[i])
            /\ (/\ pc = "Called" /\ res' = "Ok"
                /\ \E k \in Rows : /\ mv[k] = Release
                                   /\ get_pos(state.cranes[k]) = <<i, N - 1>>)
               => \E k \in Rows :
                     state'.done[i] = Append(state.done[i], state.cranes[k].container)]_vars

\* A crane that carries a container stands on the intake cell of row i.
IntakeCovered(s, i) ==
    \E k \in Rows : Carrying(s, k) /\ get_pos(s.cranes[k]) = <<i, 0>>

\* C15: in the initial state and after every call of step, an intake cell
\* without a container belongs to a row whose queue is exhausted or has a
\* carrying crane on it (so a crane with an empty hand does not hold back
\* carry-in), and a step pops at most one container per row.
C15_CarryIn ==
    /\ \A i \in Rows :
          state.board[i][0] = EMPTY =>
             (state.queue[i] = <<>> \/ IntakeCovered(state, i))
    /\ [][\A i \in Rows : Len(state'.queue[i]) >= Len(state.queue[i]) - 1]_vars

\* C15's case: an accepted step has carried the second container of a row in
\* under a crane with an empty hand, while the other row's intake cell is
\* kept empty by a carrying crane.
C15_Witness ==
    /\ res = "Ok"
    /\ \E i \in Rows : \E k \in Rows :
          /\ Taken(state, i) = 2
          /\ state.board[i][0] = input.a[i + 1][2]
          /\ ~Carrying(state, k)
          /\ get_pos(state.cranes[k]) = <<i, 0>>
    /\ \E i \in Rows :
          /\ state.board[i][0] = EMPTY
          /\ state.queue[i] # <<>>
          /\ IntakeCovered(state, i)

(***************************************************************************)
(* determine_target_containers as a function of the State.                 *)
(***************************************************************************)

\* The sequences that hold every element of S once.
RECURSIVE Perms(_)
Perms(S) ==
    IF S = {} THEN {<<>>}
    ELSE UNION {{<<x>> \o q : q \in Perms(S \ {x})} : x \in S}

\* How many of the containers 0..8 the planned inputs place freely; the
\* others follow in increasing order.
PlanFree == 7

\* Inputs of side 3: the first PlanFree ids in every order, then the rest.
PlanInputs ==
    {[i \in 1..3 |-> [j \in 1..3 |->
        (q \o [k \in 1..9 - PlanFree |-> PlanFree + k - 1])[3 * (i - 1) + j]]] :
       q \in Perms(0..PlanFree - 1)}

\* The State after the cranes of the rows in S have picked the container
\* they stand on.
picked(s, S) == step(s, [i \in 0..len(s)-1 |-> IF i \in S THEN Pick ELSE Stay]).state

PlanInit ==
    /\ \E a \in PlanInputs : input = mk_input(a)
    /\ \E S \in SUBSET (0..input.n-1) : state = picked(new(input), S)
    /\ pc = "Plan"
    /\ mv = <<>> /\ res = "None"
    /\ SolverIdle
    /\ BfsIdle

\* The planner asks for the targets of the State.
Plan ==
    /\ pc = "Plan"
    /\ qres' = determine_target_containers(state)
    /\ pc' = "Planned"
    /\ UNCHANGED <<input, state, mv, res, turn, actions, rstate, rturn, query>>

PlanNext == Plan

PlanSpec == PlanInit /\ [][PlanNext]_vars

\* The next container of every row that is not complete.
NextIds(s) == {N * i + Len(s.done[i]) : i \in {r \in Rows : Len(s.done[r]) < N}}

\* The queue that holds container c, and the number of containers that
\* leave that queue before c does.
InQueue(s, c) == {j \in Rows : \E k \in 1..Len(s.queue[j]) : s.queue[j][k] = c}
QueueOf(s, c) == CHOOSE j \in InQueue(s, c) : TRUE
DepthOf(s, c) ==
    Len(s.queue[QueueOf(s, c)])
    - (CHOOSE k \in 1..Len(s.queue[QueueOf(s, c)]) : s.queue[QueueOf(s, c)][k] = c)

\* The kicks committed to queue j by the targets chosen so far.
Committed(s, chosen, j) ==
    LET ds == {DepthOf(s, c) + 1 : c \in {e \in chosen : InQueue(s, e) = {j}}}
    IN IF ds = {} THEN 0 ELSE CHOOSE d \in ds : \A e \in ds : d >= e

\* The additional kicks container c costs after the targets in chosen: none
\* on the board or in a crane's hand, its depth + 1 less the kicks committed
\* to its queue otherwise.
Cost(s, chosen, c) ==
    IF InQueue(s, c) = {} THEN 0
    ELSE DepthOf(s, c) + 1 - Committed(s, chosen, QueueOf(s, c))

\* The greedy order of the containers rem with ties going to the least id.
RECURSIVE GreedyById(_, _, _)
GreedyById(s, chosen, rem) ==
    IF rem = {} THEN <<>>
    ELSE LET c == CHOOSE c \in rem : \A e \in rem :
                     \/ Cost(s, chosen, c) < Cost(s, chosen, e)
                     \/ Cost(s, chosen, c) = Cost(s, chosen, e) /\ c <= e
         IN <<c>> \o GreedyById(s, chosen \cup {c}, rem \ {c})

\* C16, as stated: the targets are the next containers of the incomplete
\* rows in greedy order of fewest additional kicks, ties going to the least
\* container id.
C16_GreedyById ==
    pc = "Planned" => qres = GreedyById(state, {}, NextIds(state))

Before(k) == {qres[l] : l \in 1..k-1}

\* C16, amended: the targets are the next containers of the incomplete rows,
\* each once; every target costs no more additional kicks, after the targets
\* before it, than any target behind it; the first target is the least id
\* among the cheapest.  A later tie goes to the container that stood first
\* after the earlier rounds' sorts, which need not be the least id.
C16_Greedy ==
    pc = "Planned" =>
       /\ {qres[k] : k \in 1..Len(qres)} = NextIds(state)
       /\ Len(qres) = Cardinality(NextIds(state))
       /\ \A k \in 1..Len(qres) : \A l \in k+1..Len(qres) :
             Cost(state, Before(k), qres[k]) <= Cost(state, Before(k), qres[l])
       /\ \A l \in 2..Len(qres) :
             Cost(state, {}, qres[1]) = Cost(state, {}, qres[l]) => qres[1] < qres[l]

\* C16's case: two targets tie once the first is chosen, and the one with the
\* greater id is taken first.
C16_Witness ==
    /\ pc = "Planned"
    /\ Len(qres) = 3
    /\ Cost(state, {qres[1]}, qres[2]) = Cost(state, {qres[1]}, qres[3])
    /\ qres[2] > qres[3]

\* The cell crane i is on after move m.
After(s, i, m) ==
    IF m.tag = "Move" THEN next(m, get_pos(s.cranes[i]), len(s))[2]
    ELSE get_pos(s.cranes[i])

\* The candidate actions of crane i with their remaining path lengths: Pick
\* or Release on its destination, any move that stays on the grid without a
\* destination, the first steps of bfs otherwise.
Cands(s, dests, i) ==
    LET c == s.cranes[i]
        paths == bfs(s, get_pos(c), dests[i], c.large \/ c.container = EMPTY)
    IN IF dests[i] = <<NOPOS, NOPOS>>
       THEN {<<Stay, 0>>} \cup
            {<<MoveDir(d), 0>> : d \in {e \in 0..3 : next(MoveDir(e), get_pos(c), len(s)) # NONE}}
       ELSE IF dests[i] = get_pos(c)
       THEN {<<IF c.container = EMPTY THEN Pick ELSE Release, 0>>}
       ELSE {paths[k] : k \in 1..Len(paths)}

\* Two cranes of combination c end on one cell or exchange cells.
Clash(s, c) ==
    \E i \in 0..n_crane-1 : \E j \in 0..n_crane-1 :
        /\ i < j
        /\ \/ After(s, i, c[i + 1][1]) = After(s, j, c[j + 1][1])
           \/ /\ After(s, i, c[i + 1][1]) = get_pos(s.cranes[j])
              /\ After(s, j, c[j + 1][1]) = get_pos(s.cranes[i])

\* The combinations of one candidate per crane that are not all Stay and
\* pass the collision check.
OkCombos(s, dests) ==
    {c \in Cands(s, dests, 0) \X Cands(s, dests, 1) \X Cands(s, dests, 2)
            \X Cands(s, dests, 3) \X Cands(s, dests, 4) :
        (\E k \in 1..n_crane : c[k][1] # Stay) /\ ~Clash(s, c)}

SumOf(c) == c[1][2] + c[2][2] + c[3][2] + c[4][2] + c[5][2]

\* The outcome pc2, mv2 of a turn is what the claim says of the combinations
\* ok for the destinations dests.
Synthesized(s, dests, ok, pc2, mv2) ==
    /\ pc2 # "AssertFailed"
    /\ pc2 = "NoCandidate" <=> ok = {}
    /\ ok # {} =>
         /\ \E c \in ok : /\ \A k \in 1..n_crane : mv2[k - 1] = c[k][1]
                          /\ \A e \in ok : SumOf(c) <= SumOf(e)
         /\ \A i \in 0..n_crane-1 :
               dests[i] = get_pos(s.cranes[i]) =>
                  mv2[i] = (IF s.cranes[i].container = EMPTY THEN Pick ELSE Release)

SynthesizedFor(s, dests, pc2, mv2) == Synthesized(s, dests, OkCombos(s, dests), pc2, mv2)

\* C17: in every turn of a solver run the vector of consider_next_move is a
\* combination of one candidate per crane that is not all Stay, passes the
\* collision check and has the least sum of remaining path lengths among
\* such combinations; a crane on its destination Picks or Releases; the
\* function aborts exactly when there is no such combination.
C17_MinimalCombination ==
    [][(pc = "Running" /\ pc' \notin {"Done", "TurnLimitExceeded"})
       => SynthesizedFor(state, match_crane_with_target(state, n_crane), pc', mv')]_vars

\* C17's case: the chosen vector has a crane picking on its destination, a
\* crane releasing on its destination and a crane on its way.
C17_Witness ==
    /\ pc = "Running" /\ res = "Ok" /\ turn > 0
    /\ \E i \in Rows : mv[i] = Pick
    /\ \E i \in Rows : mv[i] = Release
    /\ \E i \in Rows : mv[i].tag = "Move"

\* The cranes of the solver and those that carry.
Cranes == 0..n_crane-1
Loaded(s) == {i \in Cranes : s.cranes[i].container # EMPTY}

\* The destinations of the cranes that carry, before any pickup is given.
LoadedDests(s) ==
    busy_loop(s, next_containers_to_caryy_out(s),
              SelectSeq([k \in 1..n_crane |-> k - 1], LAMBDA i : i \in Loaded(s)),
              [i \in Cranes |-> <<NOPOS, NOPOS>>])

\* Crane i can take the container of cell t to a release point, given dests.
Feasible(s, i, t, dests) ==
    reachable(s, t,
              dest_of_container(s, next_containers_to_caryy_out(s), s.board[t[1]][t[2]],
                                t, s.cranes[i].large, dests),
              s.cranes[i].large)

\* Entry by entry of tasks: the entry goes to the feasible crane outside
\* given that is nearest to it, the lowest index among the nearest; with no
\* feasible crane it goes to none.
RECURSIVE NearestFirst(_, _, _, _)
NearestFirst(s, tasks, given, dests) ==
    IF tasks = <<>> THEN dests
    ELSE LET t == Head(tasks)
             F == {i \in Cranes \ given : Feasible(s, i, t, dests)}
             far(i) == manhattan_distance(get_pos(s.cranes[i]), t)
             best == CHOOSE i \in F :
                        \A j \in F : far(i) < far(j) \/ (far(i) = far(j) /\ i <= j)
         IN IF F = {} THEN NearestFirst(s, Tail(tasks), given, dests)
            ELSE NearestFirst(s, Tail(tasks), given \cup {best},
                              [dests EXCEPT ![best] = t])

\* The cranes without a load that dests sends to cell t, and the entries of
\* tasks that are cell t.
SentTo(s, dests, t) == {i \in Cranes \ Loaded(s) : dests[i] = t}
EntriesAt(tasks, t) == {k \in 1..Len(tasks) : tasks[k] = t}

\* dests is the nearest-first matching of the entries of tasks.
Matched(s, tasks, dests) ==
    /\ dests = NearestFirst(s, tasks, Loaded(s), LoadedDests(s))
    /\ \A i \in Loaded(s) : dests[i] = LoadedDests(s)[i]
    /\ \A i \in Cranes \ Loaded(s) :
          dests[i] # <<NOPOS, NOPOS>> => Contains(tasks, dests[i])

\* No cell is the destination of two cranes without a load.
OneCraneEach(s, dests) ==
    \A i \in Cranes \ Loaded(s) : \A j \in Cranes \ Loaded(s) :
        (i # j /\ dests[i] # <<NOPOS, NOPOS>>) => dests[i] # dests[j]

\* C18 as stated: the destinations of match_crane_with_target are the
\* nearest-first matching of the pickup destinations, a crane that carries
\* gets none of them, and each pickup destination is given to at most one
\* crane.
C18_OnePerDestination ==
    pc = "Running" =>
        /\ Matched(state, make_destinations(state),
                   match_crane_with_target(state, n_crane))
        /\ OneCraneEach(state, match_crane_with_target(state, n_crane))

\* C18, amended: the destinations of match_crane_with_target are the
\* nearest-first matching of the entries of the pickup list, a crane that
\* carries gets none of them, and a cell is given to at most as many cranes
\* as the list has entries for it.
C18_OnePerEntry ==
    pc = "Running" =>
        /\ Matched(state, make_destinations(state),
                   match_crane_with_target(state, n_crane))
        /\ \A t \in Cells :
              Cardinality(SentTo(state, match_crane_with_target(state, n_crane), t))
                  <= Cardinality(EntriesAt(make_destinations(state), t))

\* C18's case: an intake cell listed more than once is given to two cranes
\* while another crane carries.
C18_Witness ==
    /\ pc = "Running"
    /\ Loaded(state) # {}
    /\ \E t \in Cells :
          Cardinality(SentTo(state, match_crane_with_target(state, n_crane), t)) >= 2

\* Crane i of s is a regular crane that carries.
RegularLoaded(s, i) == ~s.cranes[i].large /\ s.cranes[i].container # EMPTY

\* C19: a regular crane that carries stands on a cell with no container, so
\* its Release is never refused for an occupied cell: a refusal for that
\* reason comes from the large crane, and a regular crane releasing while
\* the others stay is accepted.
C19_RegularOverEmpty ==
    /\ \A i \in Rows : RegularLoaded(state, i) =>
          /\ ~bombed(state.cranes[i])
          /\ state.board[state.cranes[i].x][state.cranes[i].y] = EMPTY
    /\ [][pc = "Called" =>
            /\ res' = "occupied" =>
                  \E i \in Rows : /\ state.cranes[i].large
                                  /\ mv[i] = Release
                                  /\ state.cranes[i].container # EMPTY
            /\ \A i \in Rows :
                  (/\ RegularLoaded(state, i)
                   /\ mv[i] = Release
                   /\ \A j \in Rows \ {i} : mv[j] = Stay)
                  => (res' = "Ok" /\ state'.cranes[i].container = EMPTY)]_vars

\* C19's case: a regular crane carries on an intake cell whose queue still
\* holds a container, next to a cell that holds one, after an accepted step.
C19_Witness ==
    /\ pc = "Idle" /\ res = "Ok"
    /\ \E i \in Rows :
          /\ RegularLoaded(state, i)
          /\ state.cranes[i].y = 0
          /\ state.queue[state.cranes[i].x] # <<>>
          /\ \E k \in Rows : k # state.cranes[i].x /\ state.board[k][0] # EMPTY

\* The done list of row i grows in the turn from s to t by the container a
\* crane released on the row's terminal cell, the next id of the row.
Delivered_next(s, t, m, i) ==
    \E c \in Cranes :
        /\ m[c] = Release
        /\ get_pos(s.cranes[c]) = <<i, len(s) - 1>>
        /\ s.cranes[c].container = len(s) * i + Len(s.done[i])
        /\ t.done[i] = Append(s.done[i], s.cranes[c].container)

\* C20: in a run of the solver the k-th element of done[i] is N*i + k
\* (counted from 0), and a done list changes in a turn only by the row's
\* next id, released on the row's own terminal cell.
C20_DoneById ==
    /\ \A i \in Rows : \A k \in 1..Len(state.done[i]) :
          state.done[i][k] = N * i + (k - 1)
    /\ [][pc = "Running" =>
            \A i \in Rows : \/ state'.done[i] = state.done[i]
                            \/ Delivered_next(state, state', mv', i)]_vars

\* C20's case: the solver has delivered two containers to one row and
\* one to another while containers are still to come.
C20_Witness ==
    /\ pc = "Running"
    /\ \E i \in Rows : \E j \in Rows \ {i} :
          /\ Len(state.done[i]) >= 2
          /\ Len(state.done[j]) >= 1
          /\ Len(state.done[j]) < N
          /\ state.queue[j] # <<>>

\* The candidates scored in the round after the targets in chosen, and the
\* n_kicked of that round.
Scored(s, chosen) == NextIds(s) \ chosen
KickedAfter(s, chosen) == [j \in Rows |-> Committed(s, chosen, j)]

\* In the round after chosen every queued candidate lies at a depth no less
\* than the kicks committed to its queue, and its key, computed with the
\* wrapping subtraction, is the difference d + 1 - n_kicked.
InDepth(s, chosen) ==
    \A c \in Scored(s, chosen) :
        InQueue(s, c) # {} =>
           /\ search_container(s, c) = CsQueue(QueueOf(s, c), DepthOf(s, c))
           /\ Committed(s, chosen, QueueOf(s, c)) <= DepthOf(s, c)
           /\ calc_n_kick(search_container(s, c), KickedAfter(s, chosen))
                 = DepthOf(s, c) + 1 - Committed(s, chosen, QueueOf(s, c))

\* InDepth in every round of every selection that takes a cheapest
\* candidate, whichever way ties go.
RECURSIVE InDepthAnyOrder(_, _)
InDepthAnyOrder(s, chosen) ==
    /\ InDepth(s, chosen)
    /\ \A c \in Scored(s, chosen) :
          (\A e \in Scored(s, chosen) : Cost(s, chosen, c) <= Cost(s, chosen, e))
          => InDepthAnyOrder(s, chosen \cup {c})

\* InDepth in every round of the selection that gave targets.
InDepthAlong(s, targets) ==
    \A k \in 1..Len(targets) + 1 : InDepth(s, {targets[l] : l \in 1..k-1})

\* C21: in every state of a solver run, and in every planned state, the
\* subtraction d + 1 - n_kicked[i] of determine_target_containers never
\* underflows: a queued candidate at depth d is scored with at most d kicks
\* committed to its queue, in the order the function selects and in every
\* other order that takes a cheapest candidate.
C21_NoUnderflow ==
    pc \in {"Running", "Plan", "Planned"} =>
        /\ InDepthAlong(state, determine_target_containers(state))
        /\ InDepthAnyOrder(state, {})

\* C21's case: in a solver run two candidates wait in one queue; the
\* shallower is selected first and the deeper is then scored with kicks
\* committed to its queue.
C21_Witness ==
    /\ pc = "Running"
    /\ \E c \in NextIds(state) : \E e \in NextIds(state) \ {c} :
          /\ InQueue(state, c) # {} /\ InQueue(state, c) = InQueue(state, e)
          /\ DepthOf(state, c) < DepthOf(state, e)
          /\ Committed(state, {c}, QueueOf(state, e)) >= 1
          /\ \E k \in 1..Len(determine_target_containers(state)) :
                \E l \in k+1..Len(determine_target_containers(state)) :
                   /\ determine_target_containers(state)[k] = c
                   /\ determine_target_containers(state)[l] = e

\* The cranes of s standing on cell t with and without a load.
LoadedOn(s, t) == {i \in Loaded(s) : get_pos(s.cranes[i]) = t}
IdleOn(s, t) == {i \in Cranes \ Loaded(s) : get_pos(s.cranes[i]) = t}

\* Every empty-handed crane that dests leaves on its own cell stands on a
\* container.
PicksSomething(s, dests) ==
    \A i \in Cranes \ Loaded(s) :
        dests[i] = get_pos(s.cranes[i]) =>
            s.board[s.cranes[i].x][s.cranes[i].y] # EMPTY

\* Every pickup destination of tasks that holds no container is an intake
\* cell with a carrying crane on it and no empty-handed one.
EmptyOnlyUnderLoad(s, tasks) ==
    \A k \in 1..Len(tasks) :
        s.board[tasks[k][1]][tasks[k][2]] = EMPTY =>
            /\ tasks[k][2] = 0
            /\ LoadedOn(s, tasks[k]) # {}
            /\ IdleOn(s, tasks[k]) = {}

\* C22: the assertion of consider_next_move never fails in a solver run: an
\* empty-handed crane on its assigned destination stands on a container,
\* and a pickup destination without a container is an intake cell under a
\* carrying crane, where no empty-handed crane stands.
C22_AssertionHolds ==
    /\ pc # "AssertFailed"
    /\ pc = "Running" =>
          /\ PicksSomething(state, match_crane_with_target(state, n_crane))
          /\ \A i \in Cranes :
                ~assert_fails(state, match_crane_with_target(state, n_crane), i)
          /\ EmptyOnlyUnderLoad(state, make_destinations(state))

\* C22's case: an empty-handed crane stands on its assigned destination
\* while another pickup destination is an intake cell left empty under a
\* carrying crane.
C22_Witness ==
    /\ pc = "Running"
    /\ \E i \in Cranes \ Loaded(state) :
          match_crane_with_target(state, n_crane)[i] = get_pos(state.cranes[i])
    /\ \E k \in 1..Len(make_destinations(state)) :
          /\ state.board[make_destinations(state)[k][1]][make_destinations(state)[k][2]] = EMPTY
          /\ LoadedOn(state, make_destinations(state)[k]) # {}

====
